---- MODULE Spec2Model ----
(***************************************************************************)
(* Terminal session orchestrator of claude-code-canvas                     *)
(* (canvas/src/terminal.ts): environment detection, command building, the  *)
(* per-backend registry files and the probe / reuse / create adapters that *)
(* spawnCanvas drives.                                                     *)
(*                                                                         *)
(* One behaviour is one spawnCanvas call, started from a registry that     *)
(* earlier invocations (or anything else writing under /tmp) left behind.  *)
(* Every step between two awaits or callbacks of the code is one action;   *)
(* what an external tool answers is a nondeterministic choice.             *)
(***************************************************************************)
EXTENDS Naturals, Sequences, FiniteSets

(***************************************************************************)
(* Bounds                                                                  *)
(***************************************************************************)
\* Session identifiers (pane ids, window ids, pids) are 1..MaxId.
MaxId == 2

NumText == <<"1", "2", "3", "4", "5", "6", "7", "8", "9">>

IdTexts == {NumText[n] : n \in 1..MaxId}

Missing == "<missing>"
None == "<none>"
NaN == "NaN"

\* What a registry file can hold: nothing, zero, an identifier, text that is
\* no number, and text with a numeric prefix.
Contents == {"", "0", "x", "1x"} \cup IdTexts

(***************************************************************************)
(* Backends                                                                *)
(***************************************************************************)
Backends ==
    {"tmux", "iterm2", "apple-terminal", "kitty", "wezterm", "alacritty",
     "vscode", "ghostty"}

\* trim() then if (id): iterm2, wezterm, kitty.  tmux trims but has no
\* emptiness test.  The others parseInt the text.
StrBackends == {"iterm2", "wezterm", "kitty"}
NumBackends == {"apple-terminal", "alacritty", "vscode", "ghostty"}
PidBackends == {"alacritty", "vscode", "ghostty"}
\* Reuse by two tool runs (interrupt, then the command) around a timer.
KeyBackends == {"tmux", "wezterm", "kitty"}
\* Reuse by one automation script.
ScriptBackends == {"iterm2", "apple-terminal"}
ReuseBackends == KeyBackends \cup ScriptBackends

(***************************************************************************)
(* detectTerminal                                                          *)
(***************************************************************************)
TermPrograms ==
    {"iTerm.app", "Apple_Terminal", "kitty", "WezTerm", "Alacritty", "vscode",
     "ghostty", "other"}

\* process.env as far as detectTerminal reads it; a BOOLEAN field says
\* whether the variable is set to a non-empty string.
ProcessEnvs ==
    [TERM_PROGRAM : TermPrograms, TMUX : BOOLEAN, ITERM_SESSION_ID : BOOLEAN,
     KITTY_PID : BOOLEAN, ALACRITTY_SOCKET : BOOLEAN,
     VSCODE_INJECTION : BOOLEAN, GHOSTTY_RESOURCES_DIR : BOOLEAN]

PresenceFlags(pe) ==
    [inTmux |-> pe.TMUX,
     inITerm2 |-> (pe.TERM_PROGRAM = "iTerm.app" \/ pe.ITERM_SESSION_ID),
     inAppleTerminal |-> (pe.TERM_PROGRAM = "Apple_Terminal"),
     inKitty |-> (pe.TERM_PROGRAM = "kitty" \/ pe.KITTY_PID),
     inWezTerm |-> (pe.TERM_PROGRAM = "WezTerm"),
     inAlacritty |-> (pe.TERM_PROGRAM = "Alacritty" \/ pe.ALACRITTY_SOCKET),
     inVSCode |-> (pe.TERM_PROGRAM = "vscode" \/ pe.VSCODE_INJECTION),
     inGhostty |-> (pe.TERM_PROGRAM = "ghostty" \/ pe.GHOSTTY_RESOURCES_DIR)]

ClassifyMutKittyAfterWezTerm(f) ==
    IF f.inTmux THEN "tmux"
    ELSE IF f.inITerm2 THEN "iterm2"
    ELSE IF f.inWezTerm THEN "wezterm"
    ELSE IF f.inKitty THEN "kitty"
    ELSE IF f.inAlacritty THEN "alacritty"
    ELSE IF f.inVSCode THEN "vscode"
    ELSE IF f.inGhostty THEN "ghostty"
    ELSE IF f.inAppleTerminal THEN "apple-terminal"
    ELSE "none"

\* The if / else-if chain that sets terminalType.
Classify(f) ==
    IF f.inTmux THEN "tmux"
    ELSE IF f.inITerm2 THEN "iterm2"
    ELSE IF f.inKitty THEN "kitty"
    ELSE IF f.inWezTerm THEN "wezterm"
    ELSE IF f.inAlacritty THEN "alacritty"
    ELSE IF f.inVSCode THEN "vscode"
    ELSE IF f.inGhostty THEN "ghostty"
    ELSE IF f.inAppleTerminal THEN "apple-terminal"
    ELSE "none"

Summary(t) ==
    CASE t = "tmux" -> "tmux"
      [] t = "iterm2" -> "iTerm2"
      [] t = "kitty" -> "Kitty"
      [] t = "wezterm" -> "WezTerm"
      [] t = "alacritty" -> "Alacritty (new window mode)"
      [] t = "vscode" -> "VS Code (new terminal)"
      [] t = "ghostty" -> "Ghostty (new window mode)"
      [] t = "apple-terminal" -> "Apple Terminal (new window mode)"
      [] OTHER -> "unsupported terminal"

detectTerminal(pe) ==
    LET f == PresenceFlags(pe)
        t == Classify(f)
    IN  [inTmux |-> f.inTmux, inITerm2 |-> f.inITerm2,
         inAppleTerminal |-> f.inAppleTerminal, inKitty |-> f.inKitty,
         inWezTerm |-> f.inWezTerm, inAlacritty |-> f.inAlacritty,
         inVSCode |-> f.inVSCode, inGhostty |-> f.inGhostty,
         terminalType |-> t, summary |-> Summary(t)]

\* The TerminalEnvironment before any call has run detectTerminal.
NoEnv ==
    [inTmux |-> FALSE, inITerm2 |-> FALSE, inAppleTerminal |-> FALSE,
     inKitty |-> FALSE, inWezTerm |-> FALSE, inAlacritty |-> FALSE,
     inVSCode |-> FALSE, inGhostty |-> FALSE,
     terminalType |-> "none", summary |-> "unsupported terminal"]

(***************************************************************************)
(* The command line built by spawnCanvas.  A command is a sequence of      *)
(* tokens; a token is the sequence of the strings concatenated into it.    *)
(***************************************************************************)
Absent == <<"<undefined>">>

Kinds == {"calendar", "document"}
CanvasIds == {"demo-1", "doc-2"}
ConfigTexts == {<<"">>, <<"{\"x\":1}">>}
SocketPaths == {<<"">>, <<"/tmp/my.sock">>}
Scenarios == {<<"">>, <<"meeting-picker">>}

SpawnArgs ==
    [kind : Kinds, id : CanvasIds, configJson : ConfigTexts \cup {Absent},
     socketPath : SocketPaths \cup {Absent},
     scenario : Scenarios \cup {Absent}]

TruthyMutSupplied(s) == s # Absent

\* JavaScript truthiness of an optional string.
Truthy(s) == s # Absent /\ s # <<"">>

runScript == <<"<scriptDir>", "/run-canvas.sh">>

\* A config file that does not exist.
NoConfigFile == <<"<missing>">>

ConfigFile(id) == <<"/tmp/canvas-config-", id, ".json">>

DefaultSocket(id) == <<"/tmp/canvas-", id, ".sock">>

SocketOfMutIgnoreOption(a) == DefaultSocket(a.id)

\* options?.socketPath || `/tmp/canvas-${id}.sock`
SocketOf(a) ==
    IF Truthy(a.socketPath) THEN a.socketPath ELSE DefaultSocket(a.id)

BuildCommandMutInline(a) ==
    <<runScript, <<"show">>, <<a.kind>>, <<"--id">>, <<a.id>>>>
    \o (IF Truthy(a.configJson)
        THEN << <<"--config">>, <<"'">> \o a.configJson \o <<"'">> >>
        ELSE << >>)
    \o << <<"--socket">>, SocketOf(a) >>
    \o (IF Truthy(a.scenario) THEN << <<"--scenario">>, a.scenario >> ELSE << >>)

BuildCommand(a) ==
    <<runScript, <<"show">>, <<a.kind>>, <<"--id">>, <<a.id>>>>
    \o (IF Truthy(a.configJson)
        THEN << <<"--config">>, <<"\"$(cat ">> \o ConfigFile(a.id) \o <<")\"">> >>
        ELSE << >>)
    \o << <<"--socket">>, SocketOf(a) >>
    \o (IF Truthy(a.scenario) THEN << <<"--scenario">>, a.scenario >> ELSE << >>)

(***************************************************************************)
(* State                                                                   *)
(***************************************************************************)
VARIABLES
    files,      \* registry: backend -> text of its /tmp file, or Missing
    cfgFiles,   \* canvas id -> text of /tmp/canvas-config-<id>.json
    args,       \* the arguments of the spawnCanvas call
    command,    \* the command built by the call
    env,        \* the call's TerminalEnvironment
    pc,         \* where the call stands
    idx,        \* position in spawnCanvas's sequence of if-blocks
    cur,        \* the backend whose adapter is running
    handle,     \* the identifier read from the registry file
    existing,   \* what get<Backend>Id returned
    toSave,     \* the identifier a create is about to persist
    res,        \* what the adapter's promise resolved to
    outcome,    \* what spawnCanvas returned or threw
    tried,      \* the adapters the call has invoked, in order
    failed,     \* the adapters that resolved to false
    trace,      \* what the running adapter has done so far
    stray,      \* callbacks of a reuse attempt still to run after it resolved
    pend,       \* writes and timers a create left behind without awaiting
    req,        \* a selection / content command and its sendCanvasRequest call
    upd,        \* an update command
    initial,    \* the registry as the spawnCanvas call found it
    race,       \* two spawnCanvas calls running at once on one backend
    pids        \* a process-id backend over several calls, and the pid table

vars ==
    <<files, cfgFiles, args, command, env, pc, idx, cur, handle, existing,
      toSave, res, outcome, tried, failed, trace, stray, pend, req, upd,
      initial, race, pids>>

SpawnOrder ==
    <<"iterm2", "tmux", "kitty", "wezterm", "alacritty", "vscode", "ghostty",
      "apple-terminal">>

\* The products named by the error spawnCanvas throws.
UnsupportedMessage ==
    <<"iTerm2", "tmux", "Kitty", "WezTerm", "Alacritty", "VS Code", "Ghostty",
      "Apple Terminal">>

NoOutcome == [kind |-> "none", method |-> None, message |-> << >>]

FlagMutAppleAlways(e, b) ==
    CASE b = "tmux" -> e.inTmux
      [] b = "iterm2" -> e.inITerm2
      [] b = "kitty" -> e.inKitty
      [] b = "wezterm" -> e.inWezTerm
      [] b = "alacritty" -> e.inAlacritty
      [] b = "vscode" -> e.inVSCode
      [] b = "ghostty" -> e.inGhostty
      [] b = "apple-terminal" -> TRUE

\* The presence flag that guards backend b's block in spawnCanvas.
Flag(e, b) ==
    CASE b = "tmux" -> e.inTmux
      [] b = "iterm2" -> e.inITerm2
      [] b = "kitty" -> e.inKitty
      [] b = "wezterm" -> e.inWezTerm
      [] b = "alacritty" -> e.inAlacritty
      [] b = "vscode" -> e.inVSCode
      [] b = "ghostty" -> e.inGhostty
      [] b = "apple-terminal" -> e.inAppleTerminal

NextAdapterMutSkipOne(e, i) ==
    LET later == {k \in (i + 2)..Len(SpawnOrder) : Flag(e, SpawnOrder[k])}
    IN  IF later = {} THEN 0
        ELSE CHOOSE k \in later : \A m \in later : k <= m

\* The next if-block after position i whose flag is true; 0 when control
\* reaches the throw.
NextAdapter(e, i) ==
    LET later == {k \in (i + 1)..Len(SpawnOrder) : Flag(e, SpawnOrder[k])}
    IN  IF later = {} THEN 0
        ELSE CHOOSE k \in later : \A m \in later : k <= m

(***************************************************************************)
(* cli.ts: the clients of a running canvas's socket.  selection and        *)
(* content call sendCanvasRequest; update writes one frame and leaves.     *)
(***************************************************************************)
QueryCommands == {"selection", "content"}

RequestType(c) == IF c = "selection" THEN "getSelection" ELSE "getContent"

ExpectedType(c) == IF c = "selection" THEN "selection" ELSE "content"

\* JSON.stringify({ type: requestType }) + "\n"
RequestFrame(t) == <<"{\"type\":\"", t, "\"}", "\n">>

TimeoutError == "Timeout waiting for response"
SocketError == "<socket error>"
Undefined == "<undefined>"

\* The type member of a reply; Undefined when the object has none.
ReplyTypes == {"selection", "content", "error", Undefined}

\* The text of a reply's data member; Undefined when the object has none.
DataTexts == {"[\"a\"]", "[ \"a\" ]", "null", "\"a b\"", Undefined}

\* What one data event can deliver: the text of a JSON object, or (json
\* FALSE) text that JSON.parse rejects or that parses to null.
Chunks ==
    {[json |-> TRUE, type |-> t, data |-> d] : t \in ReplyTypes, d \in DataTexts}
    \cup {[json |-> FALSE, type |-> Undefined, data |-> Undefined]}

NoChunk == [json |-> FALSE, type |-> None, data |-> None]

\* JSON.stringify(JSON.parse(text).data): white space between tokens is
\* dropped, and stringify of undefined is undefined.
Reserialize(d) == IF d = "[ \"a\" ]" THEN "[\"a\"]" ELSE d

NoPromise == [st |-> "pending", val |-> None, by |-> "none"]

NoReq ==
    [cmd |-> None, pc |-> "idle", resolved |-> FALSE, timer |-> "unset",
     sock |-> "none", promise |-> NoPromise, connects |-> 0, written |-> << >>,
     got |-> NoChunk, late |-> FALSE, printed |-> None, status |-> "running",
     nSettle |-> 0]

OnTimeoutMutResolveNull(r) ==
    IF ~r.resolved
    THEN [r EXCEPT !.resolved = TRUE, !.timer = "fired",
                   !.nSettle = @ + 1,
                   !.promise = [st |-> "resolved", val |-> "null",
                                by |-> "timeout"]]
    ELSE [r EXCEPT !.timer = "fired"]

\* The setTimeout callback of sendCanvasRequest.
OnTimeout(r) ==
    IF ~r.resolved
    THEN [r EXCEPT !.resolved = TRUE, !.timer = "fired",
                   !.nSettle = @ + 1,
                   !.promise = [st |-> "rejected", val |-> TimeoutError,
                                by |-> "timeout"]]
    ELSE [r EXCEPT !.timer = "fired"]

\* open(socket): write the request frame.
OnOpen(r) ==
    [r EXCEPT !.sock = "open",
              !.written = Append(@, RequestFrame(RequestType(r.cmd)))]

\* data(socket, data) up to JSON.parse: the flag is set and the timer
\* cleared before the text is parsed.
OnDataHead(r, m) ==
    [r EXCEPT !.timer = "cleared", !.resolved = TRUE, !.got = m]

ReplyValueMutIgnoreType(c, m) == Reserialize(m.data)

\* response.type === expectedResponseType ? JSON.stringify(response.data)
\*                                         : JSON.stringify(null)
ReplyValue(c, m) ==
    IF m.type = ExpectedType(c) THEN Reserialize(m.data) ELSE "null"

\* data(socket, data) for text that parses to an object.
OnData(r, m) ==
    IF r.resolved THEN [r EXCEPT !.late = TRUE]
    ELSE [OnDataHead(r, m) EXCEPT
             !.nSettle = @ + 1,
             !.promise = [st |-> "resolved", val |-> ReplyValue(r.cmd, m),
                          by |-> "data"],
             !.sock = "ended"]

OnCloseMutReject(r) ==
    IF ~r.resolved
    THEN [r EXCEPT !.resolved = TRUE, !.timer = "cleared",
                   !.nSettle = @ + 1,
                   !.promise = [st |-> "rejected", val |-> SocketError,
                                by |-> "close"]]
    ELSE r

\* close()
OnClose(r) ==
    IF ~r.resolved
    THEN [r EXCEPT !.resolved = TRUE, !.timer = "cleared",
                   !.nSettle = @ + 1,
                   !.promise = [st |-> "resolved", val |-> "null",
                                by |-> "close"]]
    ELSE r

OnErrorMutUnguarded(r) ==
    [r EXCEPT !.resolved = TRUE, !.timer = "cleared",
              !.nSettle = @ + 1,
              !.promise = IF @.st = "pending"
                          THEN [st |-> "rejected", val |-> SocketError,
                                by |-> "error"]
                          ELSE @]

\* error(socket, error)
OnError(r) ==
    IF ~r.resolved
    THEN [r EXCEPT !.resolved = TRUE, !.timer = "cleared",
                   !.nSettle = @ + 1,
                   !.promise = [st |-> "rejected", val |-> SocketError,
                                by |-> "error"]]
    ELSE r

\* The --config option of update: absent, JSON text, or text that is no JSON.
UpdateConfigs == {Undefined, "{\"x\":1}", "{ \"x\": 1 }", "{x"}

ValidJson(t) == t # "{x"

\* JSON.stringify(options.config ? JSON.parse(options.config) : {})
ConfigValue(t) ==
    IF t = Undefined THEN "{}"
    ELSE IF t = "{ \"x\": 1 }" THEN "{\"x\":1}"
    ELSE t

\* JSON.stringify({ type: "update", config }) + "\n"
UpdateFrame(t) ==
    <<"{\"type\":\"update\",\"config\":", ConfigValue(t), "}", "\n">>

NoUpd ==
    [pc |-> "idle", config |-> Undefined, sock |-> "none", written |-> << >>,
     dataSeen |-> FALSE, log |-> << >>, status |-> "running"]

UpdOnOpenMutKeepOpen(u) ==
    [u EXCEPT !.written = Append(@, UpdateFrame(u.config)), !.sock = "open"]

\* open(socket): socket.write(msg + "\n"); socket.end()
UpdOnOpen(u) ==
    [u EXCEPT !.written = Append(@, UpdateFrame(u.config)), !.sock = "ended"]

\* data(socket, data) { /* Ignore responses */ }
UpdOnData(u) == [u EXCEPT !.dataSeen = TRUE]

NoTrace ==
    [entry |-> "<unread>", probe |-> "none", liveId |-> None,
     cleared |-> FALSE, nCreate |-> 0, acted |-> {}, intr |-> "none",
     inj |-> "none", ans |-> None, reuse |-> "none", created |-> FALSE,
     out |-> None, rc |-> "none", via |-> "none", steps |-> << >>,
     poll |-> FALSE, rcFirst |-> "none"]

\* The two spawnCanvas calls that run at once.
Calls == {1, 2}

\* The pane a canvas already runs in, and the pane ids tmux hands out next.
OldPane == "%0"
NewPanes == <<"%1", "%2">>

NoCall == [pc |-> "start", id |-> None, how |-> "none"]

NoRace ==
    [on |-> FALSE, file |-> Missing, first |-> Missing, live |-> {},
     made |-> [c \in Calls |-> None], nMade |-> 0,
     call |-> [c \in Calls |-> NoCall]]

\* What a process id names: no process, a terminal a create spawned for the
\* canvas, or any other process of the machine.
ProcKinds == {"free", "canvas", "other"}

NoPids ==
    [on |-> FALSE, poll |-> FALSE, file |-> Missing,
     tab |-> [p \in IdTexts |-> "free"], pc |-> "idle", pid |-> None,
     pendSave |-> None, pendPoll |-> FALSE, sig |-> "none"]

NoStray == [st |-> "none", id |-> None, probed |-> None, steps |-> << >>]

ExitCodes == {0, 1}

StatusName(code) == IF code = 0 THEN "zero" ELSE "nonzero"

\* A registry in which at most one backend's file exists.
InitRegistries ==
    {[b \in Backends |-> IF b = b0 THEN c ELSE Missing] :
        b0 \in Backends, c \in Contents \cup {Missing}}

\* The arguments the orchestration runs are checked with.
SpawnInputs ==
    {[kind |-> "calendar", id |-> "demo-1", configJson |-> Absent,
      socketPath |-> Absent, scenario |-> Absent]}

Quiet ==
    /\ cfgFiles = [i \in CanvasIds |-> NoConfigFile]
    /\ command = << >>
    /\ env = NoEnv
    /\ pc = "idle"
    /\ idx = 0
    /\ cur = None
    /\ handle = None
    /\ existing = None
    /\ toSave = None
    /\ res = FALSE
    /\ outcome = NoOutcome
    /\ tried = << >>
    /\ failed = {}
    /\ trace = NoTrace
    /\ stray = [b \in KeyBackends |-> NoStray]
    /\ pend = [b \in PidBackends |-> None]
    /\ req = NoReq
    /\ upd = NoUpd
    /\ initial = files

Idle ==
    /\ Quiet
    /\ race = NoRace
    /\ pids = NoPids

Init ==
    /\ files \in InitRegistries
    /\ args \in SpawnInputs
    /\ Idle

(***************************************************************************)
(* spawnCanvas                                                             *)
(***************************************************************************)
\* Lines 99-119: detectTerminal, the command, the config file.
Begin ==
    /\ pc = "idle"
    /\ \E pe \in ProcessEnvs : env' = detectTerminal(pe)
    /\ command' = BuildCommand(args)
    /\ cfgFiles' =
          IF Truthy(args.configJson)
          THEN [cfgFiles EXCEPT ![args.id] = args.configJson]
          ELSE cfgFiles
    /\ pc' = "dispatch"
    /\ UNCHANGED <<initial, race, pids, req, upd, files, args, idx, cur, handle, existing, toSave, res,
                   outcome, tried, failed, trace, stray, pend>>

\* if (env.inX) { const result = await spawnX(command); ... }
Invoke ==
    /\ pc = "dispatch"
    /\ NextAdapter(env, idx) # 0
    /\ idx' = NextAdapter(env, idx)
    /\ cur' = SpawnOrder[idx']
    /\ tried' = Append(tried, cur')
    /\ pc' = IF cur' = "kitty" THEN "kittyRC" ELSE "get"
    /\ handle' = None
    /\ existing' = None
    /\ toSave' = None
    /\ res' = FALSE
    /\ trace' = NoTrace
    /\ UNCHANGED <<initial, race, pids, req, upd, files, cfgFiles, args, command, env, outcome, failed, stray,
                   pend>>

\* throw new Error("Canvas requires a supported terminal: ...")
Throw ==
    /\ pc = "dispatch"
    /\ NextAdapter(env, idx) = 0
    /\ outcome' = [kind |-> "error", method |-> None,
                   message |-> UnsupportedMessage]
    /\ pc' = "done"
    /\ cur' = None
    /\ UNCHANGED <<initial, race, pids, req, upd, files, cfgFiles, args, command, env, idx, handle, existing,
                   toSave, res, tried, failed, trace, stray, pend>>

\* if (result) return { method: ... }; otherwise on to the next if-block.
AdapterReturn ==
    /\ pc = "adapterDone"
    /\ IF res
       THEN /\ outcome' = [kind |-> "ok", method |-> cur, message |-> << >>]
            /\ pc' = "done"
       ELSE /\ outcome' = outcome
            /\ pc' = "dispatch"
    /\ failed' = IF res THEN failed ELSE failed \cup {cur}
    /\ UNCHANGED <<initial, race, pids, req, upd, files, cfgFiles, args, command, env, idx, cur, handle,
                   existing, toSave, res, tried, trace, stray, pend>>

(***************************************************************************)
(* get<Backend>Id: read the registry file, probe, clear a stale entry      *)
(***************************************************************************)
\* parseInt(text, 10) on the texts of Contents, as the text of the number.
ParseInt(t) ==
    CASE t \in IdTexts -> t
      [] t = "0" -> "0"
      [] t = "1x" -> "1"
      [] OTHER -> NaN

\* The identifier get<Backend>Id takes from the file's text.  The texts of
\* Contents carry no surrounding white space, so trim() changes none of them.
HandleOf(b, text) == IF b \in NumBackends THEN ParseInt(text) ELSE text

ProbedMutAlways(b, h) == TRUE

\* Whether get<Backend>Id goes on to its probe: tmux always does, the
\* string backends on a non-empty id, the numeric ones on !isNaN.
Probed(b, h) ==
    IF b = "tmux" THEN TRUE
    ELSE IF b \in StrBackends THEN h # ""
    ELSE h # NaN

\* What the probe of backend b can answer for identifier h.
\*   tmux prints a pane id whenever it exits 0, never the empty string;
\*   wezterm and kitty compare String(<number>) with the stored text;
\*   process.kill(0, 0) signals the caller's own process group.
ProbeOutcomes(b, h) ==
    IF b \in PidBackends
    THEN IF h = "0" THEN {"live"} ELSE {"live", "dead"}
    ELSE IF b = "tmux"
    THEN IF h = "" THEN {"dead", "toolfail"} ELSE {"live", "dead", "toolfail"}
    ELSE IF b \in {"wezterm", "kitty"}
    THEN IF h \in IdTexts \cup {"0"}
         THEN {"live", "dead", "toolfail"}
         ELSE {"dead", "toolfail"}
    ELSE {"live", "dead", "toolfail"}

KittyRemoteControlMutAlwaysGet ==
    /\ pc = "kittyRC"
    /\ \E avail \in BOOLEAN :
          /\ pc' = "get"
          /\ trace' = [trace EXCEPT !.rc = IF avail THEN "yes" ELSE "no",
                                    !.rcFirst = IF avail THEN "yes" ELSE "no"]
    /\ UNCHANGED <<initial, race, pids, req, upd, files, cfgFiles, args,
                   command, env, idx, cur, handle, existing, toSave, res,
                   outcome, tried, failed, stray, pend>>

\* spawnKitty: if (isKittyRemoteControlAvailable()) { ... }
KittyRemoteControl ==
    /\ pc = "kittyRC"
    /\ \E avail \in BOOLEAN :
          /\ pc' = IF avail THEN "get" ELSE "create"
          /\ trace' = [trace EXCEPT !.rc = IF avail THEN "yes" ELSE "no",
                                    !.rcFirst = IF avail THEN "yes" ELSE "no"]
    /\ UNCHANGED <<initial, race, pids, req, upd, files, cfgFiles, args, command, env, idx, cur, handle,
                   existing, toSave, res, outcome, tried, failed, stray, pend>>

\* file.exists(), file.text(), trim / parseInt, and the test that guards the
\* probe.
ReadHandle ==
    /\ pc = "get"
    /\ LET text == files[cur]
           h == HandleOf(cur, text)
       IN  /\ trace' = [trace EXCEPT !.entry = text]
           /\ IF text # Missing /\ Probed(cur, h)
              THEN /\ handle' = h
                   /\ pc' = "probe"
              ELSE /\ handle' = None
                   /\ pc' = "decide"
    /\ existing' = None
    /\ UNCHANGED <<initial, race, pids, req, upd, files, cfgFiles, args, command, env, idx, cur, toSave, res,
                   outcome, tried, failed, stray, pend>>

ExistingAfterProbeMutTrustFile(o, h) == h

\* What get<Backend>Id returns after its probe: the identifier when the
\* probe found it live, null otherwise.
ExistingAfterProbe(o, h) == IF o = "live" THEN h ELSE None

\* spawnSync of the listing tool (or process.kill(pid, 0)) and the test of
\* its answer.
Probe ==
    /\ pc = "probe"
    /\ \E o \in ProbeOutcomes(cur, handle) :
          /\ existing' = ExistingAfterProbe(o, handle)
          /\ IF o = "live"
             THEN /\ pc' = "decide"
                  /\ trace' = [trace EXCEPT !.probe = "live",
                                                   !.liveId = handle]
             ELSE /\ pc' = "clearStale"
                  /\ trace' = [trace EXCEPT !.probe = "failed"]
    /\ UNCHANGED <<initial, race, pids, req, upd, files, cfgFiles, args, command, env, idx, cur, handle,
                   toSave, res, outcome, tried, failed, stray, pend>>

StaleTextMutKeep(text) == text

StaleTextMutDelete(text) == Missing

\* await Bun.write(FILE, "") after a failed probe.
StaleText(text) == ""

ClearStale ==
    /\ pc = "clearStale"
    /\ files' = [files EXCEPT ![cur] = StaleText(files[cur])]
    /\ trace' = [trace EXCEPT !.cleared = (files'[cur] = "")]
    /\ pc' = "decide"
    /\ UNCHANGED <<initial, race, pids, req, upd, cfgFiles, args, command, env, idx, cur, handle, existing,
                   toSave, res, outcome, tried, failed, stray, pend>>

(***************************************************************************)
(* spawn<Backend>: reuse or terminate the live session, else create        *)
(***************************************************************************)
\* if (existingId): null, the empty string and the number 0 are falsy.
TruthyId(b, e) == e # None /\ e # "" /\ (b \in NumBackends => e # "0")

\* No live identifier: straight to create.
NoExisting ==
    /\ pc = "decide"
    /\ ~TruthyId(cur, existing)
    /\ pc' = "create"
    /\ UNCHANGED <<initial, race, pids, req, upd, files, cfgFiles, args, command, env, idx, cur, handle,
                   existing, toSave, res, outcome, tried, failed, trace, stray, pend>>

\* reuseExistingPane / reuseWezTermPane / reuseKittyWindow: spawn the tool
\* that sends the interrupt.
ReuseKeysStart ==
    /\ pc = "decide"
    /\ cur \in KeyBackends
    /\ TruthyId(cur, existing)
    /\ trace' = [trace EXCEPT !.acted = @ \cup {existing},
                              !.steps = Append(@, "interrupt")]
    /\ pc' = "reuseInt"
    /\ UNCHANGED <<initial, race, pids, req, upd, files, cfgFiles, args, command, env, idx, cur, handle,
                   existing, toSave, res, outcome, tried, failed, stray, pend>>

\* killProc.on("close", () => setTimeout(..., 150)): the exit status of the
\* interrupt is not looked at.
InterruptClose ==
    /\ pc = "reuseInt"
    /\ \E code \in ExitCodes :
          trace' = [trace EXCEPT !.intr = StatusName(code)]
    /\ pc' = "reuseTimer"
    /\ UNCHANGED <<initial, race, pids, req, upd, files, cfgFiles, args, command, env, idx, cur, handle,
                   existing, toSave, res, outcome, tried, failed, stray, pend>>

\* killProc.on("error", () => resolve(false)).  The runtime may deliver
\* "close" after "error"; that callback then still runs.
InterruptErrorMutNoHandler ==
    /\ pc = "reuseInt"
    /\ trace' = [trace EXCEPT !.intr = "error"]
    /\ pc' = "unresolved"
    /\ UNCHANGED <<initial, race, pids, req, upd, files, cfgFiles, args,
                   command, env, idx, cur, handle, existing, toSave, res,
                   outcome, tried, failed, stray, pend>>

InterruptError ==
    /\ pc = "reuseInt"
    /\ trace' = [trace EXCEPT !.intr = "error", !.reuse = "failed"]
    /\ \E also \in BOOLEAN :
          stray' = [stray EXCEPT ![cur] =
                       IF also
                       THEN [st |-> "close", id |-> existing,
                             probed |-> trace.liveId, steps |-> trace.steps]
                       ELSE NoStray]
    /\ pc' = "clearUsed"
    /\ UNCHANGED <<initial, race, pids, req, upd, files, cfgFiles, args, command, env, idx, cur, handle,
                   existing, toSave, res, outcome, tried, failed, pend>>

\* The 150 ms timer fires: spawn the tool that types clear && <command>.
SettleTimer ==
    /\ pc = "reuseTimer"
    /\ trace' = [trace EXCEPT !.acted = @ \cup {existing},
                              !.steps = @ \o <<"settle", "inject">>]
    /\ pc' = "reuseInj"
    /\ UNCHANGED <<initial, race, pids, req, upd, files, cfgFiles, args, command, env, idx, cur, handle,
                   existing, toSave, res, outcome, tried, failed, stray, pend>>

ReuseNextMutFallThrough(reused) == "clearUsed"

\* if (reused) { return true; } and otherwise on to the clearing write.
ReuseNext(reused) == IF reused THEN "adapterDone" ELSE "clearUsed"

InjectResultMutAlwaysTrue(code) == TRUE

\* proc.on("close", (code) => resolve(code === 0))
InjectResult(code) == code = 0

InjectClose ==
    /\ pc = "reuseInj"
    /\ \E code \in ExitCodes :
          IF InjectResult(code)
          THEN /\ trace' = [trace EXCEPT !.inj = StatusName(code),
                                                !.reuse = "ok",
                                                !.via = "reuse"]
               /\ res' = TRUE
               /\ pc' = ReuseNext(TRUE)
          ELSE /\ trace' = [trace EXCEPT !.inj = StatusName(code),
                                                !.reuse = "failed"]
               /\ res' = FALSE
               /\ pc' = ReuseNext(FALSE)
    /\ UNCHANGED <<initial, race, pids, req, upd, files, cfgFiles, args, command, env, idx, cur, handle,
                   existing, toSave, outcome, tried, failed, stray, pend>>

\* proc.on("error", () => resolve(false))
InjectError ==
    /\ pc = "reuseInj"
    /\ trace' = [trace EXCEPT !.inj = "error", !.reuse = "failed"]
    /\ pc' = "clearUsed"
    /\ UNCHANGED <<initial, race, pids, req, upd, files, cfgFiles, args, command, env, idx, cur, handle,
                   existing, toSave, res, outcome, tried, failed, stray, pend>>

\* The "close" that follows an "error" of the interrupt: it starts the timer.
StrayClose(b) ==
    /\ stray[b].st = "close"
    /\ stray' = [stray EXCEPT ![b].st = "timer"]
    /\ UNCHANGED <<initial, race, pids, req, upd, files, cfgFiles, args, command, env, pc, idx, cur, handle,
                   existing, toSave, res, outcome, tried, failed, trace, pend>>

\* That timer fires and types the command into the old session.
StrayTimer(b) ==
    /\ stray[b].st = "timer"
    /\ stray' = [stray EXCEPT ![b].st = "inject",
                              ![b].steps = @ \o <<"settle", "inject">>]
    /\ trace' = trace
    /\ UNCHANGED <<initial, race, pids, req, upd, files, cfgFiles, args, command, env, pc, idx, cur, handle,
                   existing, toSave, res, outcome, tried, failed, pend>>

\* Its tool ends; resolve() on the settled promise does nothing.
StrayInjectEnd(b) ==
    /\ stray[b].st = "inject"
    /\ stray' = [stray EXCEPT ![b] = NoStray]
    /\ UNCHANGED <<initial, race, pids, req, upd, files, cfgFiles, args, command, env, pc, idx, cur, handle,
                   existing, toSave, res, outcome, tried, failed, trace, pend>>

\* reuseITerm2Session / reuseAppleTerminalWindow: spawn the script.
ReuseScriptStart ==
    /\ pc = "decide"
    /\ cur \in ScriptBackends
    /\ TruthyId(cur, existing)
    /\ trace' = [trace EXCEPT !.acted = @ \cup {existing}]
    /\ pc' = "reuseScript"
    /\ UNCHANGED <<initial, race, pids, req, upd, files, cfgFiles, args, command, env, idx, cur, handle,
                   existing, toSave, res, outcome, tried, failed, stray, pend>>

\* resolve(code === 0 && output.trim() === "success")
ScriptResult(code, out) == code = 0 /\ out = "success"

ScriptStepsMutNoInterrupt(b) == <<"inject">>

\* What the reuse script does to the session it finds: iTerm2 writes the
\* interrupt character, delays 0.15 and writes the command; Apple Terminal
\* only runs do script with the command.
ScriptSteps(b) ==
    IF b = "iterm2" THEN <<"interrupt", "settle", "inject">> ELSE <<"inject">>

ScriptClose ==
    /\ pc = "reuseScript"
    /\ \E code \in ExitCodes, out \in {"success", "not_found", ""},
          k \in 0..Len(ScriptSteps(cur)) :
          /\ (out = "") = (code # 0)
          \* a script that answers success ran all its steps, one that
          \* answers not_found none, one that failed any number of them
          /\ out = "success" => k = Len(ScriptSteps(cur))
          /\ out = "not_found" => k = 0
          /\ IF ScriptResult(code, out)
             THEN /\ trace' = [trace EXCEPT
                                   !.inj = StatusName(code),
                                   !.ans = out,
                                   !.reuse = "ok",
                                   !.via = "reuse",
                                   !.steps = SubSeq(ScriptSteps(cur), 1, k)]
                  /\ res' = TRUE
                  /\ pc' = ReuseNext(TRUE)
             ELSE /\ trace' = [trace EXCEPT
                                   !.inj = StatusName(code),
                                   !.ans = out,
                                   !.reuse = "failed",
                                   !.steps = SubSeq(ScriptSteps(cur), 1, k)]
                  /\ res' = FALSE
                  /\ pc' = ReuseNext(FALSE)
    /\ UNCHANGED <<initial, race, pids, req, upd, files, cfgFiles, args, command, env, idx, cur, handle,
                   existing, toSave, outcome, tried, failed, stray, pend>>

ScriptError ==
    /\ pc = "reuseScript"
    /\ trace' = [trace EXCEPT !.inj = "error", !.reuse = "failed"]
    /\ pc' = "clearUsed"
    /\ UNCHANGED <<initial, race, pids, req, upd, files, cfgFiles, args, command, env, idx, cur, handle,
                   existing, toSave, res, outcome, tried, failed, stray, pend>>

\* spawnAlacritty / spawnVSCode / spawnGhostty:
\* process.kill(existingPid, "SIGTERM"), which may throw.
Terminate ==
    /\ pc = "decide"
    /\ cur \in PidBackends
    /\ TruthyId(cur, existing)
    /\ trace' = [trace EXCEPT !.acted = @ \cup {existing}]
    /\ \E delivered \in BOOLEAN :
          pc' = IF delivered THEN "termWait" ELSE "clearUsed"
    /\ UNCHANGED <<initial, race, pids, req, upd, files, cfgFiles, args, command, env, idx, cur, handle,
                   existing, toSave, res, outcome, tried, failed, stray, pend>>

\* await new Promise((resolve) => setTimeout(resolve, 200))
TerminateWait ==
    /\ pc = "termWait"
    /\ pc' = "clearUsed"
    /\ UNCHANGED <<initial, race, pids, req, upd, files, cfgFiles, args, command, env, idx, cur, handle,
                   existing, toSave, res, outcome, tried, failed, trace, stray, pend>>

ClearUsedMutNoWrite ==
    /\ pc = "clearUsed"
    /\ pc' = "create"
    /\ UNCHANGED <<initial, race, pids, req, upd, files, cfgFiles, args, command, env, idx, cur,
                   handle, existing, toSave, res, outcome, tried, failed,
                   trace, stray, pend>>

\* await Bun.write(FILE, "") in spawn<Backend>, after a failed reuse or after
\* the terminate.
ClearUsed ==
    /\ pc = "clearUsed"
    /\ files' = [files EXCEPT ![cur] = ""]
    /\ trace' = [trace EXCEPT !.cleared = TRUE]
    /\ pc' = "create"
    /\ UNCHANGED <<initial, race, pids, req, upd, cfgFiles, args, command, env, idx, cur, handle, existing,
                   toSave, res, outcome, tried, failed, stray, pend>>

(***************************************************************************)
(* create<Backend>...                                                      *)
(***************************************************************************)
ToolBackends == {"tmux", "iterm2", "apple-terminal", "wezterm", "kitty"}

\* What the creating tool can print: nothing, or the new session's id.
CreateOutputs == {""} \cup IdTexts

\* The identifier the close handler takes from the tool's output.
CreatedId(b, out) == IF b = "apple-terminal" THEN ParseInt(out) ELSE out

\* The test that guards save<Backend>Id in the close handler.
Persist(b, code, out) ==
    /\ code = 0
    /\ IF b = "apple-terminal" THEN ParseInt(out) # NaN ELSE out # ""

CreateResultMutExitOnly(b, code, out) == code = 0

\* What the close handler resolves to: iterm2 and apple-terminal succeed only
\* with an identifier, tmux, wezterm and kitty on exit status 0.
CreateResult(b, code, out) ==
    IF b \in ScriptBackends THEN Persist(b, code, out) ELSE code = 0

\* createNewPane / createITerm2SplitPane / createAppleTerminalWindow /
\* createWezTermSplitPane: spawn the creating tool.
CreateSpawn ==
    /\ pc = "create"
    /\ cur \in ToolBackends \ {"kitty"}
    /\ trace' = [trace EXCEPT !.nCreate = @ + 1]
    /\ pc' = "createWait"
    /\ UNCHANGED <<initial, race, pids, req, upd, files, cfgFiles, args, command, env, idx, cur, handle,
                   existing, toSave, res, outcome, tried, failed, stray, pend>>

\* createKittySplitPane: kitty @ launch when remote control answers, a plain
\* detached window (resolve(true), no identifier) when it does not.
CreateKitty ==
    /\ pc = "create"
    /\ cur = "kitty"
    /\ \E avail \in BOOLEAN :
          IF avail
          THEN /\ trace' = [trace EXCEPT !.nCreate = @ + 1,
                                                !.rc = "yes"]
               /\ res' = FALSE
               /\ pc' = "createWait"
          ELSE /\ trace' = [trace EXCEPT !.nCreate = @ + 1,
                                                !.rc = "no",
                                                !.created = TRUE,
                                                !.via = "create"]
               /\ res' = TRUE
               /\ pc' = "adapterDone"
    /\ UNCHANGED <<initial, race, pids, req, upd, files, cfgFiles, args, command, env, idx, cur, handle,
                   existing, toSave, outcome, tried, failed, stray, pend>>

\* proc.on("close", async (code) => ...) of the creating tool.
CreateClose ==
    /\ pc = "createWait"
    /\ \E code \in ExitCodes, out \in CreateOutputs :
          /\ code # 0 => out = ""
          /\ IF Persist(cur, code, out)
             THEN /\ toSave' = CreatedId(cur, out)
                  /\ trace' = [trace EXCEPT !.created = TRUE,
                                                   !.out = CreatedId(cur, out)]
                  /\ res' = res
                  /\ pc' = "save"
             ELSE /\ toSave' = toSave
                  /\ res' = CreateResult(cur, code, out)
                  /\ trace' = [trace EXCEPT
                                        !.created = (code = 0),
                                        !.via = IF res' THEN "create" ELSE @]
                  /\ pc' = "adapterDone"
    /\ UNCHANGED <<initial, race, pids, req, upd, files, cfgFiles, args, command, env, idx, cur, handle,
                   existing, outcome, tried, failed, stray, pend>>

\* proc.on("error", () => resolve(false))
CreateError ==
    /\ pc = "createWait"
    /\ res' = FALSE
    /\ pc' = "adapterDone"
    /\ UNCHANGED <<initial, race, pids, req, upd, files, cfgFiles, args, command, env, idx, cur, handle,
                   existing, toSave, outcome, tried, failed, trace, stray, pend>>

SaveMutWrongFile ==
    /\ pc = "save"
    /\ files' = [files EXCEPT !["tmux"] = toSave]
    /\ trace' = [trace EXCEPT !.via = "create"]
    /\ res' = TRUE
    /\ pc' = "adapterDone"
    /\ UNCHANGED <<initial, race, pids, req, upd, cfgFiles, args, command,
                   env, idx, cur, handle, existing, toSave, outcome, tried,
                   failed, stray, pend>>

\* await save<Backend>Id(id); resolve(true)
Save ==
    /\ pc = "save"
    /\ files' = [files EXCEPT ![cur] = toSave]
    /\ trace' = [trace EXCEPT !.via = "create"]
    /\ res' = TRUE
    /\ pc' = "adapterDone"
    /\ UNCHANGED <<initial, race, pids, req, upd, cfgFiles, args, command, env, idx, cur, handle, existing,
                   toSave, outcome, tried, failed, stray, pend>>

\* createAlacrittyWindow / createVSCodeTerminal / createGhosttyWindow: spawn
\* detached; with a pid, start the save without awaiting it (on darwin
\* Ghostty instead sets the 1000 ms timer that polls pgrep) and resolve(true).
CreateDetached ==
    /\ pc = "create"
    /\ cur \in PidBackends
    /\ \E pid \in IdTexts \cup {None}, darwin \in BOOLEAN :
          /\ (cur # "ghostty" => ~darwin)
          \* the new process does not get the pid the probe just found alive
          /\ pid # trace.liveId
          /\ IF pid = None
             THEN /\ trace' = [trace EXCEPT !.nCreate = @ + 1]
                  /\ pend' = pend
                  /\ res' = FALSE
             ELSE /\ trace' = [trace EXCEPT !.nCreate = @ + 1,
                                                   !.created = TRUE,
                                                   !.out = pid,
                                                   !.via = "create",
                                                   !.poll = darwin]
                  /\ pend' = [pend EXCEPT ![cur] =
                                 IF darwin THEN "poll" ELSE pid]
                  /\ res' = TRUE
    /\ pc' = "adapterDone"
    /\ UNCHANGED <<initial, race, pids, req, upd, files, cfgFiles, args, command, env, idx, cur, handle,
                   existing, toSave, outcome, tried, failed, stray>>

\* The write that save<Backend>Pid(proc.pid) started reaches the file.
FlushSave(b) ==
    /\ pend[b] \in IdTexts
    /\ files' = [files EXCEPT ![b] = pend[b]]
    /\ pend' = [pend EXCEPT ![b] = None]
    /\ UNCHANGED <<initial, race, pids, req, upd, cfgFiles, args, command, env, pc, idx, cur, handle,
                   existing, toSave, res, outcome, tried, failed, trace, stray>>

\* createGhosttyWindow's timer: pgrep -n ghostty, parseInt, save if a number.
GhosttyPoll ==
    /\ pend["ghostty"] = "poll"
    /\ \E found \in IdTexts \cup {NaN} :
          files' = IF found # NaN
                   THEN [files EXCEPT !["ghostty"] = found]
                   ELSE files
    /\ pend' = [pend EXCEPT !["ghostty"] = None]
    /\ UNCHANGED <<initial, race, pids, req, upd, cfgFiles, args, command, env, pc, idx, cur, handle,
                   existing, toSave, res, outcome, tried, failed, trace, stray>>

\* The process ends once the call has returned and no callback, timer or
\* write is left.
Exit ==
    /\ pc = "done"
    /\ \A b \in KeyBackends : stray[b] = NoStray
    /\ \A b \in PidBackends : pend[b] = None
    /\ pc' = "exited"
    /\ UNCHANGED <<initial, race, pids, req, upd, files, cfgFiles, args, command, env, idx, cur, handle,
                   existing, toSave, res, outcome, tried, failed, trace, stray, pend>>

Next ==
    \/ Begin
    \/ Invoke
    \/ Throw
    \/ AdapterReturn
    \/ KittyRemoteControl
    \/ ReadHandle
    \/ Probe
    \/ ClearStale
    \/ NoExisting
    \/ ReuseKeysStart
    \/ InterruptClose
    \/ InterruptError
    \/ SettleTimer
    \/ InjectClose
    \/ InjectError
    \/ \E b \in KeyBackends : StrayClose(b)
    \/ \E b \in KeyBackends : StrayTimer(b)
    \/ \E b \in KeyBackends : StrayInjectEnd(b)
    \/ ReuseScriptStart
    \/ ScriptClose
    \/ ScriptError
    \/ Terminate
    \/ TerminateWait
    \/ ClearUsed
    \/ CreateSpawn
    \/ CreateKitty
    \/ CreateClose
    \/ CreateError
    \/ Save
    \/ CreateDetached
    \/ \E b \in PidBackends : FlushSave(b)
    \/ GhosttyPoll
    \/ Exit

Spec == Init /\ [][Next]_vars

\* The registries termination is checked over: no file, an empty one, text
\* that is no number, and one identifier standing for all of them.
FairRegistries ==
    {f \in InitRegistries :
        \A b \in Backends : f[b] \in {Missing, "", "x", NumText[1]}}

FairInit ==
    /\ files \in FairRegistries
    /\ args \in SpawnInputs
    /\ Idle

\* Every external tool the call started finishes with an exit status or a
\* launch error, every timer fires and every file operation completes: a
\* step that can be taken is taken.
FairSpec == FairInit /\ [][Next]_vars /\ WF_vars(Next)

(***************************************************************************)
(* The command builder alone: lines 99-119 of spawnCanvas over every       *)
(* combination of arguments.                                               *)
(***************************************************************************)
CmdInit ==
    /\ files = [b \in Backends |-> Missing]
    /\ args \in SpawnArgs
    /\ Idle

CmdNext == Begin

CmdSpec == CmdInit /\ [][CmdNext]_vars

\* The arguments the unsupported-terminal path is checked with: both canvas
\* ids, configJson absent, empty and non-empty.
MissInputs ==
    {a \in SpawnArgs : /\ a.kind = "calendar"
                       /\ a.socketPath = Absent
                       /\ a.scenario = Absent}

\* spawnCanvas calls over every registry in which no if (env.inX) block is
\* entered: detection, the config file write and the command, then the
\* throw.
MissInit ==
    /\ files \in InitRegistries
    /\ args \in MissInputs
    /\ Idle

MissNext ==
    \/ Begin
    \/ Throw
    \/ Exit

MissSpec == MissInit /\ [][MissNext]_vars

(***************************************************************************)
(* Two spawnTmux calls at once.  The calls share CANVAS_PANE_FILE and the  *)
(* tmux server and nothing else; every await of spawnTmux is a point where *)
(* the other call can run.                                                 *)
(***************************************************************************)
raceRest ==
    <<files, cfgFiles, args, command, env, pc, idx, cur, handle, existing,
      toSave, res, outcome, tried, failed, trace, stray, pend, initial, pids,
      req, upd>>

RaceStep(c, at, to, how) ==
    [race EXCEPT !.call[c] = [@ EXCEPT !.pc = to, !.how = how]]

\* getCanvasPaneId: file.exists(), file.text().trim()
RRead(c) ==
    /\ race.on
    /\ race.call[c].pc = "start"
    /\ race' = IF race.file = Missing
               THEN RaceStep(c, "start", "create", "none")
               ELSE [race EXCEPT !.call[c] = [@ EXCEPT !.pc = "probe",
                                                       !.id = race.file]]
    /\ UNCHANGED raceRest

\* getCanvasPaneId: tmux display-message -t paneId -p '#{pane_id}'
RProbe(c) ==
    /\ race.on
    /\ race.call[c].pc = "probe"
    /\ race' = IF race.call[c].id \in race.live
               THEN RaceStep(c, "probe", "reuse", "none")
               ELSE RaceStep(c, "probe", "clearStale", "none")
    /\ UNCHANGED raceRest

\* getCanvasPaneId: await Bun.write(CANVAS_PANE_FILE, ""); return null
RClearStale(c) ==
    /\ race.on
    /\ race.call[c].pc = "clearStale"
    /\ race' = [RaceStep(c, "clearStale", "create", "none") EXCEPT
                   !.file = ""]
    /\ UNCHANGED raceRest

\* reuseExistingPane, to its resolve.
RReuse(c) ==
    /\ race.on
    /\ race.call[c].pc = "reuse"
    /\ \E ok \in BOOLEAN :
          race' = IF ok THEN RaceStep(c, "reuse", "done", "reuse")
                        ELSE RaceStep(c, "reuse", "clearUsed", "none")
    /\ UNCHANGED raceRest

\* spawnTmux: await Bun.write(CANVAS_PANE_FILE, "") after a failed reuse.
RClearUsed(c) ==
    /\ race.on
    /\ race.call[c].pc = "clearUsed"
    /\ race' = [RaceStep(c, "clearUsed", "create", "none") EXCEPT
                   !.file = ""]
    /\ UNCHANGED raceRest

\* createNewPane: tmux split-window ... -P -F '#{pane_id}', to its close
\* or error event.
RCreate(c) ==
    /\ race.on
    /\ race.call[c].pc = "create"
    /\ \E ok \in BOOLEAN :
          race' = IF ok
                  THEN [RaceStep(c, "create", "save", "none") EXCEPT
                           !.nMade = @ + 1,
                           !.made[c] = NewPanes[race.nMade + 1],
                           !.live = @ \cup {NewPanes[race.nMade + 1]}]
                  ELSE RaceStep(c, "create", "done", "failed")
    /\ UNCHANGED raceRest

RSaveMutSkip(c) ==
    /\ race.on
    /\ race.call[c].pc = "save"
    /\ race' = RaceStep(c, "save", "done", "create")
    /\ UNCHANGED raceRest

\* createNewPane: await saveCanvasPaneId(paneId.trim()); resolve(true)
RSave(c) ==
    /\ race.on
    /\ race.call[c].pc = "save"
    /\ race' = [RaceStep(c, "save", "done", "create") EXCEPT
                   !.file = race.made[c]]
    /\ UNCHANGED raceRest

\* The registry is missing, empty, or names the pane of an earlier canvas,
\* which is still there or gone.
RaceInit ==
    /\ files = [b \in Backends |-> Missing]
    /\ args \in SpawnInputs
    /\ Quiet
    /\ pids = NoPids
    /\ \E f \in {Missing, "", OldPane}, l \in SUBSET {OldPane} :
          race = [NoRace EXCEPT !.on = TRUE, !.file = f, !.first = f,
                                !.live = l]

RaceNext ==
    \E c \in Calls :
        \/ RRead(c)
        \/ RProbe(c)
        \/ RClearStale(c)
        \/ RReuse(c)
        \/ RClearUsed(c)
        \/ RCreate(c)
        \/ RSave(c)

RaceSpec == RaceInit /\ [][RaceNext]_vars

(***************************************************************************)
(* A process-id backend over any number of calls, one after the other,     *)
(* with the machine's process table changing in between: spawnAlacritty,   *)
(* spawnVSCode and spawnGhostty off macOS save proc.pid; spawnGhostty on   *)
(* macOS saves what pgrep -n ghostty prints a second later.                *)
(***************************************************************************)
pidsRest ==
    <<files, cfgFiles, args, command, env, pc, idx, cur, handle, existing,
      toSave, res, outcome, tried, failed, trace, stray, pend, initial, race,
      req, upd>>

\* spawn<Backend> is called.
PCall ==
    /\ pids.on
    /\ pids.pc = "idle"
    /\ pids' = [pids EXCEPT !.pc = "read", !.pid = None]
    /\ UNCHANGED pidsRest

\* get<Backend>Pid: file.exists(), parseInt(text), !isNaN(pid)
PRead ==
    /\ pids.pc = "read"
    /\ pids' = IF pids.file = Missing \/ ParseInt(pids.file) = NaN
               THEN [pids EXCEPT !.pc = "create"]
               ELSE [pids EXCEPT !.pc = "probe", !.pid = ParseInt(pids.file)]
    /\ UNCHANGED pidsRest

\* get<Backend>Pid: process.kill(pid, 0) says whether any process has the
\* pid, not which.
PProbe ==
    /\ pids.pc = "probe"
    /\ pids' = IF pids.tab[pids.pid] # "free"
               THEN [pids EXCEPT !.pc = "terminate"]
               ELSE [pids EXCEPT !.pc = "clearStale"]
    /\ UNCHANGED pidsRest

\* get<Backend>Pid: await Bun.write(FILE, ""); return null
PClearStale ==
    /\ pids.pc = "clearStale"
    /\ pids' = [pids EXCEPT !.file = "", !.pc = "create", !.pid = None]
    /\ UNCHANGED pidsRest

\* spawn<Backend>: process.kill(existingPid, "SIGTERM") and the 200 ms wait;
\* the catch covers a process gone since the probe.
PTerminate ==
    /\ pids.pc = "terminate"
    /\ pids' = IF pids.tab[pids.pid] # "free"
               THEN [pids EXCEPT !.sig = pids.tab[pids.pid],
                                 !.tab[pids.pid] = "free",
                                 !.pc = "clearUsed"]
               ELSE [pids EXCEPT !.pc = "clearUsed"]
    /\ UNCHANGED pidsRest

\* spawn<Backend>: await Bun.write(FILE, "")
PClearUsed ==
    /\ pids.pc = "clearUsed"
    /\ pids' = [pids EXCEPT !.file = "", !.pc = "create"]
    /\ UNCHANGED pidsRest

\* create<Backend>Window: spawn detached; with a proc.pid either the
\* un-awaited save<Backend>Pid(proc.pid) or, for Ghostty on macOS, the
\* 1000 ms timer is left behind, and the adapter resolves.
PCreate ==
    /\ pids.pc = "create"
    /\ \/ \E p \in IdTexts :
             /\ pids.tab[p] = "free"
             /\ pids' = IF pids.poll
                        THEN [pids EXCEPT !.tab[p] = "canvas",
                                          !.pendPoll = TRUE, !.pc = "idle"]
                        ELSE [pids EXCEPT !.tab[p] = "canvas",
                                          !.pendSave = p, !.pc = "idle"]
       \/ pids' = [pids EXCEPT !.pc = "idle"]
    /\ UNCHANGED pidsRest

\* The write of save<Backend>Pid(proc.pid) lands.
PFlushSave ==
    /\ pids.pendSave # None
    /\ pids' = [pids EXCEPT !.file = pids.pendSave, !.pendSave = None]
    /\ UNCHANGED pidsRest

\* createGhosttyWindow's timer: pgrep -n ghostty names the newest process
\* called ghostty, whichever that is, or none; a number is saved.
PGhosttyPoll ==
    /\ pids.pendPoll
    /\ \/ \E p \in IdTexts :
             /\ pids.tab[p] # "free"
             /\ pids' = [pids EXCEPT !.file = p, !.pendPoll = FALSE]
       \/ /\ \A p \in IdTexts : pids.tab[p] = "free"
          /\ pids' = [pids EXCEPT !.pendPoll = FALSE]
    /\ UNCHANGED pidsRest

\* The canvas terminal ends by itself (the user closes the window).
PCanvasExit ==
    /\ pids.on
    /\ \E p \in IdTexts :
          /\ pids.tab[p] = "canvas"
          /\ pids' = [pids EXCEPT !.tab[p] = "free"]
    /\ UNCHANGED pidsRest

\* The operating system gives a free pid to a process that is no canvas.
PPidReuse ==
    /\ pids.on
    /\ \E p \in IdTexts :
          /\ pids.tab[p] = "free"
          /\ pids' = [pids EXCEPT !.tab[p] = "other"]
    /\ UNCHANGED pidsRest

\* A process that is no canvas ends.
POtherExit ==
    /\ pids.on
    /\ \E p \in IdTexts :
          /\ pids.tab[p] = "other"
          /\ pids' = [pids EXCEPT !.tab[p] = "free"]
    /\ UNCHANGED pidsRest

\* No registry file yet, no canvas, any other processes; the backend either
\* saves proc.pid or polls.
PidInit ==
    /\ files = [b \in Backends |-> Missing]
    /\ args \in SpawnInputs
    /\ Quiet
    /\ race = NoRace
    /\ \E k \in BOOLEAN, t \in [IdTexts -> {"free", "other"}] :
          pids = [NoPids EXCEPT !.on = TRUE, !.poll = k, !.tab = t]

PidNext ==
    \/ PCall
    \/ PRead
    \/ PProbe
    \/ PClearStale
    \/ PTerminate
    \/ PClearUsed
    \/ PCreate
    \/ PFlushSave
    \/ PGhosttyPoll
    \/ PCanvasExit
    \/ PPidReuse
    \/ POtherExit

PidSpec == PidInit /\ [][PidNext]_vars

(***************************************************************************)
(* The selection / content commands and sendCanvasRequest                  *)
(***************************************************************************)
orch ==
    <<files, cfgFiles, args, command, env, pc, idx, cur, handle, existing,
      toSave, res, outcome, tried, failed, trace, stray, pend, initial, race,
      pids>>

\* The command is running and no settled promise waits for its await to
\* resume (that resumption runs before any further event).
ReqReady ==
    /\ req.pc \in {"awaiting", "printed"}
    /\ ~(req.pc = "awaiting" /\ req.promise.st # "pending")

\* sendCanvasRequest up to the return of Bun.connect: set the timer, start
\* the one connection attempt.
ReqCall(c) ==
    /\ req.pc = "idle"
    /\ upd.pc = "idle"
    /\ req' = [req EXCEPT !.cmd = c, !.pc = "awaiting", !.timer = "armed",
                          !.sock = "connecting", !.connects = @ + 1]
    /\ UNCHANGED <<orch, upd>>

ReqOpen ==
    /\ ReqReady
    /\ req.sock = "connecting"
    /\ req' = OnOpen(req)
    /\ UNCHANGED <<orch, upd>>

\* The connection attempt fails: the promise Bun.connect returned rejects,
\* and sendCanvasRequest neither awaits it nor attaches a handler to it.  The
\* runtime either ends the process on the unhandled rejection or only
\* reports it.
ReqConnectFail ==
    /\ ReqReady
    /\ req.sock = "connecting"
    /\ \E ends \in BOOLEAN :
          req' = IF ends
                 THEN [req EXCEPT !.sock = "failed", !.pc = "exited",
                                  !.status = "nonzero"]
                 ELSE [req EXCEPT !.sock = "failed"]
    /\ UNCHANGED <<orch, upd>>

\* A data event.  When JSON.parse (or .type on null) throws, the runtime
\* hands the exception to the error handler, which finds the flag set, or
\* ends the process on it.
ReqData ==
    /\ ReqReady
    /\ req.sock \in {"open", "ended"}
    /\ \E m \in Chunks :
          IF m.json \/ req.resolved
          THEN req' = OnData(req, m)
          ELSE \E ends \in BOOLEAN :
                  req' = IF ends
                         THEN [OnDataHead(req, m) EXCEPT !.pc = "exited",
                                                         !.status = "nonzero"]
                         ELSE OnError(OnDataHead(req, m))
    /\ UNCHANGED <<orch, upd>>

ReqClose ==
    /\ ReqReady
    /\ req.sock \in {"open", "ended", "errored"}
    /\ req' = [OnClose(req) EXCEPT !.sock = "closed"]
    /\ UNCHANGED <<orch, upd>>

ReqError ==
    /\ ReqReady
    /\ req.sock \in {"open", "ended"}
    /\ req' = [OnError(req) EXCEPT !.sock = "errored"]
    /\ UNCHANGED <<orch, upd>>

ReqTimeout ==
    /\ ReqReady
    /\ req.timer = "armed"
    /\ req' = OnTimeout(req)
    /\ UNCHANGED <<orch, upd>>

\* const result = await sendCanvasRequest(...); console.log(result)
ReqPrint ==
    /\ req.pc = "awaiting"
    /\ req.promise.st = "resolved"
    /\ req' = [req EXCEPT !.printed = req.promise.val, !.pc = "printed"]
    /\ UNCHANGED <<orch, upd>>

\* catch (err) { console.error(...); process.exit(1) }
ReqCatch ==
    /\ req.pc = "awaiting"
    /\ req.promise.st = "rejected"
    /\ req' = [req EXCEPT !.pc = "exited", !.status = "nonzero"]
    /\ UNCHANGED <<orch, upd>>

\* Nothing keeps the event loop alive: the process ends with status 0.
ReqExit ==
    /\ ReqReady
    /\ req.timer # "armed"
    /\ req.sock \in {"closed", "failed"}
    /\ req' = [req EXCEPT !.pc = "exited", !.status = "zero"]
    /\ UNCHANGED <<orch, upd>>

(***************************************************************************)
(* The update command                                                      *)
(***************************************************************************)
\* JSON.parse(options.config), which may throw out of the action, then
\* await Bun.connect(...).
UpdCall ==
    /\ upd.pc = "idle"
    /\ req.pc = "idle"
    /\ \E t \in UpdateConfigs :
          upd' = IF ValidJson(t)
                 THEN [upd EXCEPT !.config = t, !.pc = "connecting",
                                  !.sock = "connecting"]
                 ELSE [upd EXCEPT !.config = t, !.pc = "exited",
                                  !.status = "nonzero"]
    /\ UNCHANGED <<orch, req>>

UpdOpen ==
    /\ upd.pc = "connecting"
    /\ upd.sock = "connecting"
    /\ upd' = UpdOnOpen(upd)
    /\ UNCHANGED <<orch, req>>

\* The await resumes: console.log(`Sent update to canvas '${id}'`)
UpdSent ==
    /\ upd.pc = "connecting"
    /\ upd.sock \notin {"connecting", "none"}
    /\ upd' = [upd EXCEPT !.pc = "sent", !.log = Append(@, "Sent update")]
    /\ UNCHANGED <<orch, req>>

\* catch (err) { console.error(`Failed to connect ...`) }
UpdConnectFail ==
    /\ upd.pc = "connecting"
    /\ upd.sock = "connecting"
    /\ upd' = [upd EXCEPT !.pc = "failed", !.sock = "failed",
                          !.log = Append(@, "Failed to connect")]
    /\ UNCHANGED <<orch, req>>

UpdData ==
    /\ upd.pc = "sent"
    /\ upd.sock \in {"open", "ended"}
    /\ upd' = UpdOnData(upd)
    /\ UNCHANGED <<orch, req>>

\* error(socket, error) { console.error("Socket error:", error) }
UpdError ==
    /\ upd.pc = "sent"
    /\ upd.sock \in {"open", "ended"}
    /\ upd' = [upd EXCEPT !.sock = "errored", !.log = Append(@, "Socket error")]
    /\ UNCHANGED <<orch, req>>

\* close() {}
UpdClose ==
    /\ upd.pc = "sent"
    /\ upd.sock \in {"open", "ended", "errored"}
    /\ upd' = [upd EXCEPT !.sock = "closed"]
    /\ UNCHANGED <<orch, req>>

UpdExit ==
    /\ upd.pc \in {"sent", "failed"}
    /\ upd.sock \in {"closed", "failed"}
    /\ upd' = [upd EXCEPT !.pc = "exited", !.status = "zero"]
    /\ UNCHANGED <<orch, req>>

\* One run of selection, content or update.
IpcInit ==
    /\ files = [b \in Backends |-> Missing]
    /\ args \in SpawnInputs
    /\ Idle

IpcNext ==
    \/ \E c \in QueryCommands : ReqCall(c)
    \/ ReqOpen
    \/ ReqConnectFail
    \/ ReqData
    \/ ReqClose
    \/ ReqError
    \/ ReqTimeout
    \/ ReqPrint
    \/ ReqCatch
    \/ ReqExit
    \/ UpdCall
    \/ UpdOpen
    \/ UpdSent
    \/ UpdConnectFail
    \/ UpdData
    \/ UpdError
    \/ UpdClose
    \/ UpdExit

IpcSpec == IpcInit /\ [][IpcNext]_vars

(***************************************************************************)
(* Properties                                                              *)
(***************************************************************************)
Returned == pc \in {"done", "exited"}

Flagged(b) == Flag(env, b)

C2_DrivesTheClassifiedBackend ==
    /\ \A i \in 1..Len(tried) : tried[i] = env.terminalType
    /\ outcome.kind = "ok" => outcome.method = env.terminalType

C3_Precedence ==
    <<"tmux", "iterm2", "kitty", "wezterm", "alacritty", "vscode", "ghostty",
      "apple-terminal">>

C3_FirstTrueFlag(f) ==
    LET on == {i \in 1..Len(C3_Precedence) : Flag(f, C3_Precedence[i])}
    IN  IF on = {} THEN "none"
        ELSE C3_Precedence[CHOOSE i \in on : \A j \in on : i <= j]

C3_AllFlagCombinations ==
    [inTmux : BOOLEAN, inITerm2 : BOOLEAN, inAppleTerminal : BOOLEAN,
     inKitty : BOOLEAN, inWezTerm : BOOLEAN, inAlacritty : BOOLEAN,
     inVSCode : BOOLEAN, inGhostty : BOOLEAN]

\* C3: terminalType is the first true presence flag in the order tmux, iterm2,
\* kitty, wezterm, alacritty, vscode, ghostty, apple-terminal, and none when
\* no flag is true: for the environment of every call, and for each of the
\* 256 combinations of the eight flags.
C3_ClassificationByPrecedence ==
    /\ pc # "idle" =>
          /\ env.terminalType = C3_FirstTrueFlag(env)
          /\ env.terminalType \in Backends \cup {"none"}
    /\ pc = "idle" =>
          \A f \in C3_AllFlagCombinations : Classify(f) = C3_FirstTrueFlag(f)

C3_KittyBeforeWezTerm ==
    /\ pc # "idle"
    /\ env.inKitty
    /\ env.inWezTerm
    /\ env.inGhostty
    /\ ~env.inTmux
    /\ ~env.inITerm2
    /\ env.terminalType = "kitty"

\* C4 as stated: in every backend, once the probe has confirmed the stored
\* identifier live the call takes the reuse path and never invokes that
\* backend's creation primitive.
C4_LiveNeverCreates ==
    (trace.probe = "live" /\ trace.entry \in IdTexts) =>
        /\ trace.nCreate = 0
        /\ pc = "adapterDone" => trace.via = "reuse"

\* C4 amended: in the five backends with a reuse transport, an identifier the
\* probe confirmed live (not the window id 0) is reused before anything is
\* created; when the reuse reports success the creation primitive is not
\* invoked and the adapter resolves true; creation is invoked only after that
\* reuse attempt has failed.
C4_ReuseSuccessNeverCreates ==
    /\ (cur \in ReuseBackends /\ trace.probe = "live"
          /\ TruthyId(cur, trace.liveId)) =>
          /\ pc \notin {"decide", "probe"} => trace.acted # {}
          /\ trace.nCreate > 0 => trace.reuse = "failed"
    /\ trace.reuse = "ok" =>
          /\ trace.nCreate = 0
          /\ trace.via = "reuse"
          /\ pc \in {"adapterDone", "done", "exited"}
          /\ res

C4_ReusedAndReturned ==
    /\ Returned
    /\ outcome.kind = "ok"
    /\ trace.probe = "live"
    /\ trace.reuse = "ok"
    /\ trace.nCreate = 0

\* C5 as stated: in every backend a non-empty entry whose probe fails, a
\* malformed one included, has the empty string written over it before the
\* creation primitive is invoked, and creation is invoked exactly once.
C5_BadEntryClearedThenCreated ==
    (trace.entry \in Contents \ {""} /\ trace.probe # "live"
       /\ pc \notin {"probe", "clearStale"}) =>
        /\ trace.nCreate <= 1
        /\ trace.nCreate > 0 => trace.cleared
        /\ pc = "adapterDone" => trace.nCreate = 1

\* C5 amended: an entry whose probe runs and fails (session dead, probe tool
\* failing, text the probe cannot match) is overwritten with the empty string
\* before the creation primitive is invoked, and creation is invoked exactly
\* once.  Text that parseInt cannot read, in apple-terminal, alacritty, vscode
\* and ghostty, is neither probed nor cleared: the file keeps it until a
\* create saves over it, and creation is still invoked exactly once.
C5_FailedProbeClearedThenCreated ==
    /\ trace.probe = "failed" =>
          /\ trace.entry \in Contents
          /\ trace.nCreate <= 1
          /\ pc \in {"decide", "create", "createWait"} => files[cur] = ""
          /\ pc \notin {"clearStale"} => trace.cleared
          /\ pc = "adapterDone" => trace.nCreate = 1
    /\ (cur \in NumBackends /\ trace.entry \in Contents
          /\ ParseInt(trace.entry) = NaN) =>
          /\ trace.probe = "none"
          /\ ~trace.cleared
          /\ pc \in {"decide", "create", "createWait"} =>
                files[cur] = trace.entry
          /\ trace.nCreate <= 1
          /\ pc = "adapterDone" => trace.nCreate = 1

C5_StaleEntryReplaced ==
    /\ pc = "adapterDone"
    /\ trace.entry \in IdTexts
    /\ trace.probe = "failed"
    /\ trace.cleared
    /\ trace.nCreate = 1
    /\ res

\* C6: a reuse action on a persisted identifier (interrupt, typed command,
\* automation script, terminate signal) happens only after the backend's
\* probe has found that same identifier live earlier in the same call.
C6_ReuseOnlyAfterLiveProbe ==
    /\ trace.acted # {} =>
          /\ trace.probe = "live"
          /\ trace.acted = {trace.liveId}
    /\ pc \in {"reuseInt", "reuseTimer", "reuseInj", "reuseScript", "termWait"}
          => trace.probe = "live" /\ existing = trace.liveId
    /\ \A b \in KeyBackends :
          stray[b].st # "none" =>
              stray[b].probed # None /\ stray[b].id = stray[b].probed

C6_CommandTypedIntoLiveSession ==
    /\ pc = "reuseInj"
    /\ trace.probe = "live"
    /\ trace.acted = {trace.liveId}
    /\ trace.liveId \in IdTexts

C7_Products ==
    {"tmux", "iTerm2", "Kitty", "WezTerm", "Alacritty", "VS Code", "Ghostty",
     "Apple Terminal"}

\* C7: with classification none spawnCanvas throws an error whose message
\* names all eight supported products, and invokes no adapter.
C7_NoneThrowsNamingAllEight ==
    (pc # "idle" /\ env.terminalType = "none") =>
        /\ pc \in {"dispatch", "done", "exited"}
        /\ tried = << >>
        /\ cur = None
        /\ trace = NoTrace
        /\ Returned =>
              /\ outcome.kind = "error"
              /\ {outcome.message[i] : i \in 1..Len(outcome.message)}
                    = C7_Products

C7_ThrownWithoutAdapter ==
    /\ pc = "done"
    /\ env.terminalType = "none"
    /\ outcome.kind = "error"

\* C8 as stated: in every backend, when a call returns success through the
\* create path the registry file holds the identifier of the session just
\* created.
C8_CreateLeavesNewId ==
    (Returned /\ outcome.kind = "ok" /\ trace.via = "create") =>
        /\ trace.out \in IdTexts
        /\ files[cur] = trace.out

\* C8 amended: when a call returns success through the create path of iterm2
\* or apple-terminal, the registry file holds the identifier the creating
\* script printed; for tmux, wezterm and kitty with remote control it holds
\* the printed identifier whenever the tool printed one (with empty output the
\* call still succeeds and nothing is saved).  Kitty without remote control
\* captures no identifier, and alacritty, vscode and ghostty do not await
\* their write (on darwin ghostty writes from a timer 1000 ms later), so their
\* file may not hold the new pid yet when the call returns.
C8_ToolCreatePersistsPrintedId ==
    (Returned /\ outcome.kind = "ok" /\ trace.via = "create") =>
        /\ cur = outcome.method
        /\ cur \in ScriptBackends =>
              trace.out \in IdTexts /\ files[cur] = trace.out
        /\ (cur \in KeyBackends /\ trace.out # None) =>
              trace.out \in IdTexts /\ files[cur] = trace.out
        /\ (cur = "kitty" /\ trace.rc = "no") => trace.out = None

C8_OlderIdReplaced ==
    /\ pc = "done"
    /\ outcome.kind = "ok"
    /\ trace.via = "create"
    /\ cur \in ScriptBackends
    /\ trace.entry \in IdTexts
    /\ files[cur] \in IdTexts
    /\ files[cur] # trace.entry

\* C9 as stated: a transport failure or a nonzero result of either the
\* interrupt send or the command injection makes the reuse fail: the handle
\* is cleared, the creation primitive is invoked, and the adapter's outcome
\* is that of create.
C9_AnyReuseFailureFallsToCreate ==
    (pc = "adapterDone"
       /\ (trace.intr \in {"nonzero", "error"}
             \/ trace.inj \in {"nonzero", "error"})) =>
        /\ trace.reuse = "failed"
        /\ trace.cleared
        /\ trace.nCreate = 1
        /\ res = (trace.via = "create")

\* C9 amended: the reuse fails when the interrupt send cannot be launched,
\* when the command injection cannot be launched or exits nonzero, or when the
\* automation script of iterm2 / apple-terminal cannot be launched, exits
\* nonzero or answers not_found; then the handle is cleared to empty, the
\* creation primitive is invoked once in the same call and the adapter's
\* result is that of create.  The exit status of the interrupt send is not
\* looked at: a nonzero interrupt followed by a successful injection is a
\* successful reuse.
C9_InjectFailureFallsToCreate ==
    /\ (trace.intr = "error" \/ trace.inj \in {"nonzero", "error"}
          \/ trace.ans = "not_found") =>
          /\ trace.reuse = "failed"
          /\ pc \in {"create", "createWait"} => files[cur] = ""
          /\ pc \notin {"clearUsed"} => trace.cleared
          /\ trace.nCreate <= 1
          /\ pc = "adapterDone" =>
                trace.nCreate = 1 /\ res = (trace.via = "create")
    /\ (cur \in KeyBackends /\ trace.inj = "zero") =>
          /\ trace.intr \in {"zero", "nonzero"}
          /\ trace.reuse = "ok"
          /\ trace.nCreate = 0

C9_FailedInjectionThenCreated ==
    /\ pc = "adapterDone"
    /\ trace.inj = "nonzero"
    /\ trace.reuse = "failed"
    /\ trace.cleared
    /\ trace.nCreate = 1
    /\ res

C10_CountOf(tok) == Cardinality({i \in 1..Len(command) : command[i] = tok})

C10_ValueOf(tok) ==
    command[(CHOOSE i \in 1..Len(command) : command[i] = tok) + 1]

C10_DefaultSocket(id) == <<"/tmp/canvas-", id, ".sock">>

\* C10: the command has exactly one --socket flag, whose value is the
\* supplied socket path when one is supplied and /tmp/canvas-<id>.sock
\* otherwise; it has --scenario <name> exactly when a scenario is supplied;
\* and it always has --id <id>.  Supplied is what the code's || and if test:
\* a non-empty string.
C10_SocketScenarioIdFlags ==
    pc # "idle" =>
        /\ C10_CountOf(<<"--socket">>) = 1
        /\ C10_ValueOf(<<"--socket">>) =
              IF args.socketPath \notin {Absent, <<"">>} THEN args.socketPath
              ELSE C10_DefaultSocket(args.id)
        /\ (C10_CountOf(<<"--scenario">>) = 1)
              = (args.scenario \notin {Absent, <<"">>})
        /\ C10_CountOf(<<"--scenario">>) <= 1
        /\ args.scenario \notin {Absent, <<"">>} =>
              C10_ValueOf(<<"--scenario">>) = args.scenario
        /\ C10_CountOf(<<"--id">>) = 1
        /\ C10_ValueOf(<<"--id">>) = <<args.id>>

C10_SuppliedSocketNoScenario ==
    /\ pc = "dispatch"
    /\ args.socketPath = <<"/tmp/my.sock">>
    /\ args.scenario = Absent
    /\ args.configJson # Absent
    /\ C10_ValueOf(<<"--socket">>) = <<"/tmp/my.sock">>
    /\ C10_CountOf(<<"--scenario">>) = 0

C11_ConfigFragment(id) ==
    <<"\"$(cat ", "/tmp/canvas-config-", id, ".json", ")\"">>

\* C11 as stated: whenever a config value is supplied, the empty string
\* included, its text is written verbatim to the per-id file and the command
\* has a --config fragment that re-reads that file; with no config supplied
\* no file is written and the command has no --config flag.
C11_AnySuppliedConfigWritten ==
    pc # "idle" =>
        IF args.configJson # Absent
        THEN /\ cfgFiles[args.id] = args.configJson
             /\ C10_CountOf(<<"--config">>) = 1
             /\ C10_ValueOf(<<"--config">>) = C11_ConfigFragment(args.id)
        ELSE /\ cfgFiles[args.id] = NoConfigFile
             /\ C10_CountOf(<<"--config">>) = 0

\* C11 amended: whenever a non-empty config string is supplied, its text is
\* written verbatim to the per-id file (and to no other id's file) and the
\* command has exactly one --config flag, whose value is the fragment that
\* re-reads that file, never the config text itself; when no config or the
\* empty string is supplied, no config file is written and the command has
\* no --config flag.
C11_NonEmptyConfigWrittenAndReread ==
    pc # "idle" =>
        /\ \A i \in CanvasIds \ {args.id} : cfgFiles[i] = NoConfigFile
        /\ IF args.configJson \notin {Absent, <<"">>}
           THEN /\ cfgFiles[args.id] = args.configJson
                /\ C10_CountOf(<<"--config">>) = 1
                /\ C10_ValueOf(<<"--config">>) = C11_ConfigFragment(args.id)
                /\ \A k \in 1..Len(command) :
                      \A m \in 1..Len(command[k]) :
                          <<command[k][m]>> # args.configJson
           ELSE /\ cfgFiles[args.id] = NoConfigFile
                /\ C10_CountOf(<<"--config">>) = 0

C11_ConfigRereadFromFile ==
    /\ pc = "dispatch"
    /\ args.id = "demo-1"
    /\ args.configJson = <<"{\"x\":1}">>
    /\ cfgFiles["demo-1"] = <<"{\"x\":1}">>
    /\ C10_ValueOf(<<"--config">>) = C11_ConfigFragment("demo-1")

\* C12 as stated: a sendCanvasRequest call in which no reply arrives, whatever
\* else the peer does on the open connection, fails with the timeout error
\* after exactly one connection attempt.
C12_NoReplyAlwaysTimesOut ==
    (req.pc = "exited" /\ req.got = NoChunk /\ req.written # << >>) =>
        /\ req.promise.st = "rejected"
        /\ req.promise.val = "Timeout waiting for response"
        /\ req.connects = 1

\* C12 amended: every sendCanvasRequest call makes exactly one connection
\* attempt; the call fails with the timeout error exactly when its timer
\* fires before anything else settled it, that is before any data arrived,
\* before the connection closed and before the socket's error handler ran; a
\* close that comes first resolves the call to the serialized null and a
\* socket error that comes first rejects it with that error; a call that
\* ended with the connection neither closed, failed nor errored and without
\* data ended by the timeout.
C12_TimeoutWhenNothingElseSettled ==
    /\ req.pc # "idle" => req.connects = 1
    /\ req.timer = "fired" =>
          /\ req.promise.st = "rejected"
          /\ req.promise.val = "Timeout waiting for response"
          /\ req.got = NoChunk
    /\ (req.promise.st = "rejected"
        /\ req.promise.val = "Timeout waiting for response") =>
          /\ req.timer = "fired"
          /\ req.got = NoChunk
          /\ req.sock \in {"connecting", "open", "failed"}
    /\ req.promise.by = "close" =>
          (req.promise.st = "resolved" /\ req.promise.val = "null")
    /\ req.promise.by = "error" =>
          (req.promise.st = "rejected" /\ req.promise.val = SocketError)
    /\ (req.pc = "exited" /\ req.got = NoChunk
        /\ req.sock \in {"connecting", "open"}) =>
          (req.promise.st = "rejected"
           /\ req.promise.val = "Timeout waiting for response")

C12_TimedOutOnOpenConnection ==
    /\ req.pc = "exited"
    /\ req.sock = "open"
    /\ Len(req.written) = 1
    /\ req.got = NoChunk
    /\ req.promise.val = "Timeout waiting for response"
    /\ req.status = "nonzero"

C13_Serialized(d) ==
    CASE d = "[\"a\"]" -> "[\"a\"]"
      [] d = "[ \"a\" ]" -> "[\"a\"]"
      [] d = "null" -> "null"
      [] d = "\"a b\"" -> "\"a b\""
      [] OTHER -> "<undefined>"

\* C13: when the first data event, arriving before the timeout, carries a
\* JSON object, sendCanvasRequest resolves (it never rejects): to the
\* serialization of the object's data member when its type equals the
\* expected response type (selection for getSelection, content for
\* getContent), and to the serialized null for every other type; the command
\* prints that value.
C13_ReplyResolvesByType ==
    req.got.json =>
        /\ req.promise.st = "resolved"
        /\ req.promise.by = "data"
        /\ req.timer = "cleared"
        /\ req.promise.val =
              IF req.got.type = req.cmd THEN C13_Serialized(req.got.data)
              ELSE "null"
        /\ req.printed # None => req.printed = req.promise.val

C13_SelectionArrayPrinted ==
    /\ req.cmd = "selection"
    /\ req.got = [json |-> TRUE, type |-> "selection", data |-> "[ \"a\" ]"]
    /\ req.printed = "[\"a\"]"
    /\ req.status = "zero"

\* C14: when the connection errors before any reply, at connect time or
\* later, sendCanvasRequest fails with that connection error, not with the
\* timeout error and not with a resolved value.
C14_ConnectionErrorIsTheFailure ==
    (req.pc = "exited" /\ req.got = NoChunk
     /\ (req.sock = "failed" \/ req.promise.by = "error")) =>
        /\ req.promise.st = "rejected"
        /\ req.promise.val = SocketError

\* C15 as stated: selection and content exit with a non-zero status on every
\* run that obtained no reply (timeout, connection error, close without a
\* reply) and print a payload with status zero only when a reply was
\* received.
C15_NoReplyExitsNonzero ==
    (req.pc = "exited" /\ req.got = NoChunk /\ req.written # << >>) =>
        /\ req.status = "nonzero"
        /\ req.printed = None

\* C15 amended: selection and content exit with a non-zero status, printing
\* no payload, on every run in which sendCanvasRequest rejects: the timeout
\* fired first, or the socket's error handler ran before any data.  A
\* connection that closes before any data is no failure: the command prints
\* the serialized null and ends with status zero.  A payload is printed only
\* with status zero, and only after a reply was received or the connection
\* closed without data.
C15_RejectionExitsNonzero ==
    req.pc = "exited" =>
        /\ req.promise.st = "rejected" =>
              (req.status = "nonzero" /\ req.printed = None)
        /\ req.promise.by \in {"timeout", "error"} =>
              req.promise.st = "rejected"
        /\ req.promise.by = "close" =>
              (req.printed = "null" /\ req.status = "zero")
        /\ req.printed # None =>
              /\ req.status = "zero"
              /\ req.promise.st = "resolved"
              /\ req.printed = req.promise.val
              /\ (req.got.json \/ req.promise.by = "close")
        /\ req.status = "zero" => req.promise.st # "rejected"

C15_ClosedWithoutReplyPrintsNull ==
    /\ req.pc = "exited"
    /\ req.cmd = "content"
    /\ req.got = NoChunk
    /\ req.promise.by = "close"
    /\ req.printed = "null"
    /\ req.status = "zero"

C16_Frame(t) ==
    <<"{\"type\":\"update\",\"config\":",
      CASE t = "<undefined>" -> "{}"
        [] t = "{ \"x\": 1 }" -> "{\"x\":1}"
        [] OTHER -> t,
      "}", "\n">>

\* C16: the update command writes, on the socket its connection opens,
\* exactly one update frame ending in a newline and closes the socket in the
\* same handler, before it has looked at any data; it never writes a second
\* frame; and data the server sends afterwards changes neither what the
\* command reports nor its exit status.  (A run whose connection fails has
\* no socket and writes nothing.)
C16_OneFrameThenClosed ==
    /\ Len(upd.written) <= 1
    /\ upd.written # << >> =>
          /\ upd.written[1] = C16_Frame(upd.config)
          /\ upd.written[1][Len(upd.written[1])] = "\n"
          /\ upd.sock \in {"ended", "errored", "closed"}
    /\ upd.pc = "sent" => Len(upd.written) = 1
    /\ upd.dataSeen =>
          /\ Len(upd.written) = 1
          /\ upd.log[1] = "Sent update"
    /\ (upd.pc = "exited" /\ upd.written # << >>) =>
          /\ upd.status = "zero"
          /\ upd.log \in {<<"Sent update">>, <<"Sent update", "Socket error">>}

C16_DataAfterUpdateIgnored ==
    /\ upd.pc = "exited"
    /\ upd.dataSeen
    /\ upd.config = "{ \"x\": 1 }"
    /\ Len(upd.written) = 1
    /\ upd.log = <<"Sent update">>
    /\ upd.status = "zero"

\* C17 as stated: in every backend with a reuse transport (tmux, iTerm2,
\* Apple Terminal, WezTerm, Kitty with remote control) a reuse first sends
\* the interrupt to the live session, then waits the 150 ms settle delay and
\* only then injects clear && <command>: no injection without the interrupt
\* and the delay before it.
C17_InterruptSettleThenInject ==
    \A i \in 1..Len(trace.steps) :
        trace.steps[i] = "inject" =>
            /\ i = 3
            /\ trace.steps[1] = "interrupt"
            /\ trace.steps[2] = "settle"

\* C17 amended: in tmux, iTerm2, WezTerm and Kitty with remote control a
\* reuse first launches the interrupt (tmux, WezTerm, Kitty: a tool run whose
\* close event starts a 150 ms timer; iTerm2: the script writes the interrupt
\* character and delays 0.15) and only then injects clear && <command>; the
\* command is never injected before that, also not by a close event that
\* follows an error event of the interrupt's tool.  Apple Terminal's reuse
\* script sends no interrupt and waits for nothing: it brings the window to
\* the front and runs the command.  The process-id backends inject nothing.
C17_InterruptFirstExceptAppleTerminal ==
    /\ trace.steps # << >> =>
          IF tried[Len(tried)] = "apple-terminal"
          THEN trace.steps = <<"inject">>
          ELSE /\ tried[Len(tried)] \in {"tmux", "iterm2", "wezterm", "kitty"}
               /\ trace.steps \in {<<"interrupt">>, <<"interrupt", "settle">>,
                                   <<"interrupt", "settle", "inject">>}
    /\ trace.reuse = "ok" =>
          trace.steps =
              IF tried[Len(tried)] = "apple-terminal" THEN <<"inject">>
              ELSE <<"interrupt", "settle", "inject">>
    /\ \A b \in KeyBackends :
          stray[b].steps \in {<< >>, <<"interrupt">>,
                              <<"interrupt", "settle", "inject">>}

C17_ITerm2InterruptedThenRetyped ==
    /\ pc = "adapterDone"
    /\ cur = "iterm2"
    /\ trace.reuse = "ok"
    /\ trace.steps = <<"interrupt", "settle", "inject">>
    /\ trace.nCreate = 0

\* C18 as stated: for every backend, when the registry file is missing or
\* holds the empty string, neither the probe nor a reuse or terminate action
\* is invoked and the adapter goes directly to create.
C18_EmptyHandleNoProbe ==
    trace.entry \in {Missing, ""} =>
        /\ trace.probe = "none"
        /\ trace.acted = {}
        /\ trace.steps = << >>
        /\ pc = "adapterDone" => trace.nCreate = 1

\* C18 amended: for every backend, when the registry file is missing or holds
\* the empty string, no reuse and no terminate action is invoked and the
\* creation primitive is invoked exactly once; the liveness probe is not
\* invoked either, except in tmux when the file exists and holds the empty
\* string: there the probe runs with an empty target, fails, and the empty
\* string is written again before create.
C18_EmptyHandleNoReuseThenCreate ==
    trace.entry \in {Missing, ""} =>
        /\ trace.acted = {}
        /\ trace.steps = << >>
        /\ trace.reuse = "none"
        /\ trace.liveId = None
        /\ trace.probe # "none" =>
              /\ tried[Len(tried)] = "tmux"
              /\ trace.entry = ""
              /\ trace.probe = "failed"
        /\ (tried[Len(tried)] = "tmux" /\ trace.entry = ""
            /\ pc \notin {"probe", "clearStale"}) =>
              (trace.probe = "failed" /\ trace.cleared)
        /\ pc = "adapterDone" => trace.nCreate = 1

C18_EmptyStringStraightToCreate ==
    /\ pc = "adapterDone"
    /\ cur = "iterm2"
    /\ trace.entry = ""
    /\ trace.probe = "none"
    /\ trace.nCreate = 1
    /\ res

\* C19: within one adapter run create starts only after the whole reuse
\* attempt, its delayed command injection included, has finished: no command
\* is injected into the old session by a callback or timer of the reuse
\* attempt once the adapter has moved on to its clearing write and create.
C19_ReuseFinishedBeforeCreate ==
    /\ \A b \in KeyBackends :
          stray[b].st = "inject" =>
              (tried[Len(tried)] = b /\ trace.nCreate = 0)
    /\ trace.nCreate > 0 =>
          pc \notin {"reuseInt", "reuseTimer", "reuseInj", "reuseScript"}

C21_NoRemoteControlNoRegistryUse ==
    /\ trace.rcFirst = "no" =>
          /\ tried[Len(tried)] = "kitty"
          /\ trace.entry = "<unread>"
          /\ trace.probe = "none"
          /\ trace.acted = {}
          /\ trace.steps = << >>
          /\ trace.reuse = "none"
          /\ ~trace.cleared
    /\ (trace.rcFirst = "no" /\ trace.rc = "no") =>
          /\ files["kitty"] = initial["kitty"]
          /\ pc # "create" =>
                /\ trace.nCreate = 1
                /\ res
                /\ trace.out = None
                /\ toSave = None
    /\ files["kitty"] # initial["kitty"] =>
          /\ \E i \in 1..Len(tried) : tried[i] = "kitty"
          /\ IF tried[Len(tried)] = "kitty"
             THEN /\ (trace.rcFirst = "yes" \/ trace.rc = "yes")
                  /\ files["kitty"] # "" =>
                        (trace.rc = "yes" /\ files["kitty"] = trace.out)
             ELSE files["kitty"] = ""

C21_PlainWindowRegistryUntouched ==
    /\ pc = "adapterDone"
    /\ cur = "kitty"
    /\ trace.rcFirst = "no"
    /\ trace.rc = "no"
    /\ initial["kitty"] = "1"
    /\ files["kitty"] = "1"
    /\ trace.nCreate = 1
    /\ res

C22_EmptyLikeMissing ==
    trace.entry \in {Missing, ""} =>
        /\ trace.liveId = None
        /\ trace.acted = {}
        /\ trace.reuse = "none"
        /\ trace.via # "reuse"
        /\ pc = "adapterDone" => trace.nCreate = 1

C22_FileStaysInExistence ==
    \A b \in Backends : files[b] # Missing => files'[b] # Missing

\* C22: no step deletes a registry file: a backend's file that exists in one
\* state exists in the next, a clear writing the empty string into it; and an
\* adapter that finds its file holding the empty string behaves as one that
\* finds none: no live identifier, no reuse or terminate action, one create.
C22_RegistryFilesNeverDeleted ==
    []C22_EmptyLikeMissing /\ [][C22_FileStaysInExistence]_vars

C22_ClearedFileStillThere ==
    /\ pc = "adapterDone"
    /\ cur = "wezterm"
    /\ initial["wezterm"] = "1"
    /\ trace.probe = "failed"
    /\ trace.cleared
    /\ files["wezterm"] = ""
    /\ ~res

C23_Changed == {b \in Backends : files[b] # initial[b]}

C25_OutcomeKept ==
    /\ req.promise.st # "pending" => req'.promise = req.promise
    /\ req.printed # None => req'.printed = req.printed
    /\ req.status # "running" => req'.status = req.status
    /\ req.resolved => req'.resolved

\* C25: under every ordering of the open, data, close, error and timeout
\* callbacks of one sendCanvasRequest call, resolve or reject is invoked at
\* most once, and no callback that runs after the promise settled changes
\* its state or value, the printed result or the exit status.
C25_SettlesAtMostOnce ==
    /\ [](req.nSettle <= 1)
    /\ [](req.nSettle = 1 <=> req.promise.st # "pending")
    /\ [][C25_OutcomeKept]_vars

\* A data event and then a socket error arrived after the reply resolved the
\* promise.
C25_LateCallbacksAfterReply ==
    /\ req.promise.by = "data"
    /\ req.late
    /\ req.sock = "errored"
    /\ req.printed = req.promise.val

\* C26: every sendCanvasRequest call settles no later than timeoutMs, for
\* every peer behaviour: once the call's timer is no longer pending (it
\* fired at timeoutMs or a handler cleared it before), the promise is
\* resolved or rejected.
C26_SettledByDeadline ==
    req.timer \in {"fired", "cleared"} => req.promise.st # "pending"

C28_Miss == outcome.kind = "error" /\ env.terminalType = "none"

\* C28 as stated: a call that fails with classification none leaves all
\* persisted state unchanged: no registry file and no config handoff file
\* is created or modified.
C28_MissLeavesNoTrace ==
    C28_Miss =>
        /\ files = initial
        /\ \A i \in CanvasIds : cfgFiles[i] = NoConfigFile

\* C28 amended: a call that fails with classification none leaves every
\* registry file unchanged, and the only persisted state it creates or
\* modifies is the config handoff file of its own canvas id, which it has
\* written with the supplied text when a non-empty configJson was given
\* (the file is written before any adapter is looked for); no other config
\* file is touched, and none at all when configJson is absent or empty.
C28_MissWritesOnlyItsConfigFile ==
    C28_Miss =>
        /\ files = initial
        /\ tried = << >>
        /\ \A b \in Backends : ~Flagged(b)
        /\ \A i \in CanvasIds :
              cfgFiles[i] = IF i = args.id /\ args.configJson \in ConfigTexts
                               /\ args.configJson # <<"">>
                            THEN args.configJson
                            ELSE NoConfigFile

C28_MissWithConfigWritten ==
    /\ C28_Miss
    /\ pc = "exited"
    /\ args.configJson = <<"{\"x\":1}">>
    /\ cfgFiles[args.id] = args.configJson
    /\ \E b \in Backends : initial[b] \notin {Missing, ""}

C24_BothDone == \A c \in Calls : race.call[c].pc = "done"

C27_OnlyCanvasTerminated ==
    pids.sig \in {"none", "canvas"}

\* Every adapter the call entered has resolved: to false, or to true as the
\* last one.
C29_AdaptersResolved ==
    \A i \in 1..Len(tried) :
        \/ tried[i] \in failed
        \/ i = Len(tried) /\ outcome.kind = "ok"

====
